---- MODULE Spec2Model ----
(***************************************************************************)
(* ROS Component Explorer: the local graph store adapter                   *)
(* (backend/db_manager.py, class DatabaseManager), the presentation layer  *)
(* that drives it (frontend/ui.py, build_ui) and the start-up sequence     *)
(* (main.py).                                                              *)
(*                                                                         *)
(* Strings are sequences of one-character strings, so that strip(),        *)
(* split('#'), str comparison and regular-expression search are computed.  *)
(* The SPARQL engine is modelled by the SPARQL 1.1 semantics of the three  *)
(* fixed queries of db_manager.py: basic graph pattern join, OPTIONAL,     *)
(* FILTER ... IN, REGEX (a type error on a non-literal argument), ||, &&,  *)
(* BOUND and ORDER BY (IRIs before literals).                              *)
(***************************************************************************)
EXTENDS Integers, Sequences, FiniteSets, TLC

(***************************************************************************)
(* Bounds of the model.                                                    *)
(***************************************************************************)
\* The largest number of triples a configured file holds.
MaxTriples == 4
\* How many times the file on disk is rewritten during a run.
MaxEdits == 1

(***************************************************************************)
(* Characters and Python str operations.                                   *)
(***************************************************************************)
\* Printable ASCII, code points 32..126, in code point order.
AsciiTable == <<" ", "!", "\"", "#", "$", "%", "&", "'", "(", ")", "*", "+", ",", "-", ".", "/", "0", "1", "2", "3", "4", "5", "6", "7", "8", "9", ":", ";", "<", "=", ">", "?", "@", "A", "B", "C", "D", "E", "F", "G", "H", "I", "J", "K", "L", "M", "N", "O", "P", "Q", "R", "S", "T", "U", "V", "W", "X", "Y", "Z", "[", "\\", "]", "^", "_", "BACKTICK", "a", "b", "c", "d", "e", "f", "g", "h", "i", "j", "k", "l", "m", "n", "o", "p", "q", "r", "s", "t", "u", "v", "w", "x", "y", "z", "{", "|", "}", "~">>

\* ord(c)
CodeTable ==
    [c \in { AsciiTable[i] : i \in 1..Len(AsciiTable) } |->
        31 + (CHOOSE i \in 1..Len(AsciiTable) : AsciiTable[i] = c)]

Code(c) == CodeTable[c]

\* c.lower() for one ASCII character
LowerTable ==
    [c \in DOMAIN CodeTable |->
        IF Code(c) >= 65 /\ Code(c) <= 90 THEN AsciiTable[Code(c) + 32 - 31] ELSE c]

Lower(c) == LowerTable[c]

\* Python's a < b on str: lexicographic by code point.
RECURSIVE StrLess(_, _)
StrLess(a, b) ==
    IF b = <<>> THEN FALSE
    ELSE IF a = <<>> THEN TRUE
    ELSE IF Head(a) = Head(b) THEN StrLess(Tail(a), Tail(b))
    ELSE Code(Head(a)) < Code(Head(b))

\* s.strip(): leading and trailing whitespace removed (the only whitespace
\* character of the model's strings is the space).
RECURSIVE LStrip(_)
LStrip(s) == IF s # <<>> /\ Head(s) = " " THEN LStrip(Tail(s)) ELSE s

RECURSIVE RStrip(_)
RStrip(s) == IF s # <<>> /\ s[Len(s)] = " " THEN RStrip(SubSeq(s, 1, Len(s) - 1)) ELSE s

Strip(s) == RStrip(LStrip(s))

\* '#' in s
HasHash(s) == \E i \in 1..Len(s) : s[i] = "#"

\* s.split('#')[-1]: the text after the last '#', the whole of s without one.
AfterLastHash(s) ==
    IF HasHash(s)
    THEN LET k == CHOOSE i \in 1..Len(s) :
                      /\ s[i] = "#"
                      /\ \A j \in (i + 1)..Len(s) : s[j] # "#"
         IN SubSeq(s, k + 1, Len(s))
    ELSE s

(***************************************************************************)
(* Python's re.search(pattern, text, re.I) for patterns made of ordinary   *)
(* characters, '.', '^', '$' and parentheses.  The model's patterns hold   *)
(* no other metacharacter.                                                 *)
(***************************************************************************)
\* re.compile succeeds: every parenthesis of a model pattern is unbalanced
\* or opens an empty-bodied group the model leaves out, so a pattern with
\* "(" alone or ")" alone raises re.error.
re_compiles(p) == \A i \in 1..Len(p) : p[i] \notin {"(", ")"}

\* The pattern from element j on matches text t starting after i characters.
RECURSIVE re_match_from(_, _, _, _)
re_match_from(p, t, j, i) ==
    IF j > Len(p) THEN TRUE
    ELSE IF p[j] = "^" THEN i = 0 /\ re_match_from(p, t, j + 1, i)
    ELSE IF p[j] = "$" THEN i = Len(t) /\ re_match_from(p, t, j + 1, i)
    ELSE IF p[j] = "." THEN i < Len(t) /\ re_match_from(p, t, j + 1, i + 1)
    ELSE /\ i < Len(t)
         /\ Lower(t[i + 1]) = Lower(p[j])
         /\ re_match_from(p, t, j + 1, i + 1)

re_search(p, t) == \E i \in 0..Len(t) : re_match_from(p, t, 1, i)

(***************************************************************************)
(* RDF terms and triples.                                                  *)
(***************************************************************************)
URIRef(v) == [kind |-> "uri", val |-> v]
Literal(v) == [kind |-> "lit", val |-> v]
\* An unbound variable of a solution (None in a result row).
Unbound == [kind |-> "unbound", val |-> <<>>]

Triple(s, p, o) == [s |-> s, p |-> p, o |-> o]

\* rdflib.namespace.RDF.type, RDFS.label
RDF_type == <<"h", "t", "t", "p", ":", "/", "/", "w", "w", "w", ".", "w", "3", ".", "o", "r", "g", "/", "1", "9", "9", "9", "/", "0", "2", "/", "2", "2", "-", "r", "d", "f", "-", "s", "y", "n", "t", "a", "x", "-", "n", "s", "#", "t", "y", "p", "e">>
RDFS_label == <<"h", "t", "t", "p", ":", "/", "/", "w", "w", "w", ".", "w", "3", ".", "o", "r", "g", "/", "2", "0", "0", "0", "/", "0", "1", "/", "r", "d", "f", "-", "s", "c", "h", "e", "m", "a", "#", "l", "a", "b", "e", "l">>
\* Namespace("http://example.org/ros-components#")
comp_ns == <<"h", "t", "t", "p", ":", "/", "/", "e", "x", "a", "m", "p", "l", "e", ".", "o", "r", "g", "/", "r", "o", "s", "-", "c", "o", "m", "p", "o", "n", "e", "n", "t", "s", "#">>
comp(local) == comp_ns \o local

comp_description == comp(<<"d", "e", "s", "c", "r", "i", "p", "t", "i", "o", "n">>)
comp_package == comp(<<"p", "a", "c", "k", "a", "g", "e">>)

\* The categories of the FILTER(?class_type IN (...)) of every query.
AllowedClassNames == {
    <<"L", "o", "c", "a", "l", "i", "z", "a", "t", "i", "o", "n", "N", "o", "d", "e">>,
    <<"S", "e", "n", "s", "o", "r", "D", "r", "i", "v", "e", "r">>,
    <<"P", "a", "t", "h", "P", "l", "a", "n", "n", "e", "r">>,
    <<"C", "o", "n", "t", "r", "o", "l", "l", "e", "r">>,
    <<"P", "e", "r", "c", "e", "p", "t", "i", "o", "n", "N", "o", "d", "e">> }
AllowedClasses == { URIRef(comp(n)) : n \in AllowedClassNames }

\* "No description available"
NoDescription == <<"N", "o", " ", "d", "e", "s", "c", "r", "i", "p", "t", "i", "o", "n", " ", "a", "v", "a", "i", "l", "a", "b", "l", "e">>

(***************************************************************************)
(* The triples a configured file is made of in this model.                 *)
(***************************************************************************)
comp_SensorDriver == URIRef(comp(<<"S", "e", "n", "s", "o", "r", "D", "r", "i", "v", "e", "r">>))
comp_Controller == URIRef(comp(<<"C", "o", "n", "t", "r", "o", "l", "l", "e", "r">>))
\* A type outside the allow-list.
comp_Robot == URIRef(comp(<<"R", "o", "b", "o", "t">>))

lidar == comp(<<"l", "i", "d", "a", "r">>)
amcl == comp(<<"a", "m", "c", "l">>)

Universe == <<
    Triple(lidar, RDF_type, comp_SensorDriver),
    Triple(lidar, RDFS_label, Literal(<<"a">>)),
    Triple(lidar, RDFS_label, Literal(<<>>)),
    Triple(lidar, RDFS_label, Literal(<<"a", "$">>)),
    Triple(lidar, RDFS_label, URIRef(amcl)),
    Triple(lidar, comp_description, Literal(<<"b">>)),
    Triple(lidar, comp_package, Literal(<<"p">>)),
    Triple(lidar, RDF_type, comp_Controller),
    Triple(lidar, RDF_type, comp_Robot),
    Triple(amcl, RDF_type, comp_SensorDriver),
    Triple(amcl, RDFS_label, Literal(<<"B">>)) >>

(***************************************************************************)
(* Python values crossing the adapter boundary.                            *)
(***************************************************************************)
PyStr(v) == [py |-> "str", val |-> v]
PyNone == [py |-> "None", val |-> <<>>]

\* How a call ends: a returned value, or an exception raised to the caller.
Return(v) == [raised |-> FALSE, value |-> v]
Raise(e) == [raised |-> TRUE, value |-> e]

(***************************************************************************)
(* The SPARQL engine on the in-memory graph.  A graph is the sequence of   *)
(* its triples in insertion order, which is the order the store enumerates *)
(* them in.                                                                *)
(***************************************************************************)
RECURSIVE Flatten(_)
Flatten(ss) == IF ss = <<>> THEN <<>> ELSE Head(ss) \o Flatten(Tail(ss))

\* The triples of g with subject s and predicate p.
Objects(g, s, p) ==
    LET Test(t) == t.s = s /\ t.p = p
    IN SelectSeq(g, Test)

\* ?component a ?class_type . ?component rdfs:label ?label .
\* OPTIONAL { ?component comp:description ?description }
GraphPattern(g) ==
    LET IsType(t) == t.p = RDF_type
        types == SelectSeq(g, IsType)
        WithDescription(tt, lt) ==
            LET ds == Objects(g, tt.s, comp_description)
            IN IF ds = <<>>
               THEN << [component |-> tt.s, label |-> lt.o, class_type |-> tt.o,
                        description |-> Unbound] >>
               ELSE [k \in 1..Len(ds) |->
                        [component |-> tt.s, label |-> lt.o, class_type |-> tt.o,
                         description |-> ds[k].o]]
        WithLabel(tt) ==
            LET ls == Objects(g, tt.s, RDFS_label)
            IN Flatten([j \in 1..Len(ls) |-> WithDescription(tt, ls[j])])
    IN Flatten([i \in 1..Len(types) |-> WithLabel(types[i])])

\* FILTER(?class_type IN (comp:LocalizationNode, comp:SensorDriver,
\*        comp:PathPlanner, comp:Controller, comp:PerceptionNode))
ClassFilter(row) == row.class_type \in AllowedClasses

\* SPARQL's order of terms: unbound, then IRIs, then literals; two IRIs or
\* two plain literals by their text.
OrderRank(t) == CASE t.kind = "unbound" -> 0 [] t.kind = "uri" -> 2 [] t.kind = "lit" -> 3

TermLess(a, b) ==
    \/ OrderRank(a) < OrderRank(b)
    \/ OrderRank(a) = OrderRank(b) /\ StrLess(a.val, b.val)

\* The query without its ORDER BY clause.
OrderByLabel_Unsorted(rows) == rows

\* ORDER BY ?label: a stable sort.
RECURSIVE OrderByLabel(_)
OrderByLabel(rows) ==
    IF rows = <<>> THEN <<>>
    ELSE LET sorted == OrderByLabel(SubSeq(rows, 1, Len(rows) - 1))
             r == rows[Len(rows)]
             before == { k \in 1..Len(sorted) : ~TermLess(r.label, sorted[k].label) }
             n == Cardinality(before)
         IN SubSeq(sorted, 1, n) \o <<r>> \o SubSeq(sorted, n + 1, Len(sorted))

\* REGEX(text, pattern, "i"): a type error unless text is a string literal.
Builtin_REGEX(text, pattern) ==
    IF text.kind # "lit" THEN "error"
    ELSE IF re_search(pattern, text.val) THEN "true"
    ELSE "false"

\* The filter without its REGEX(?label, ...) branch.
SearchFilter_NoLabel(row, pattern) ==
    LET byClass == Builtin_REGEX(row.class_type, pattern)
        byDescription == IF row.description.kind = "unbound" THEN "false"
                         ELSE Builtin_REGEX(row.description, pattern)
    IN "true" \in {byClass, byDescription}

\* REGEX(?label, ?search_term, "i") || REGEX(?class_type, ?search_term, "i")
\*   || (BOUND(?description) && REGEX(?description, ?search_term, "i"))
\* A solution passes a FILTER only when the expression is true: || is true
\* when a branch is true, and an error otherwise when a branch is an error.
SearchFilter(row, pattern) ==
    LET byLabel == Builtin_REGEX(row.label, pattern)
        byClass == Builtin_REGEX(row.class_type, pattern)
        byDescription == IF row.description.kind = "unbound" THEN "false"
                         ELSE Builtin_REGEX(row.description, pattern)
    IN "true" \in {byLabel, byClass, byDescription}

\* bool(term): None and the empty literal are false.
Truthy(t) == t.kind # "unbound" /\ t.val # <<>>

\* The dictionary built from one result row.
component_info(row) ==
    [uri |-> row.component,
     name |-> row.label.val,
     class |-> AfterLastHash(row.class_type.val),
     description |-> IF Truthy(row.description) THEN row.description.val
                     ELSE NoDescription]

Rows(rows) == [i \in 1..Len(rows) |-> component_info(rows[i])]

(***************************************************************************)
(* DatabaseManager's queries.                                              *)
(***************************************************************************)
get_all_components(g) ==
    Rows(OrderByLabel(SelectSeq(GraphPattern(g), ClassFilter)))

\* not search_term: the test without strip().
IsBlank_EmptyOnly(s) == s = <<>>

\* not search_term.strip()
IsBlank(s) == Strip(s) = <<>>

\* The body of the try block of search_components: an invalid pattern makes
\* REGEX raise re.error on the first solution that reaches it, which the
\* except clause turns into [], as is the result without any solution.
search_query(g, pattern) ==
    IF ~re_compiles(pattern) THEN <<>>
    ELSE LET Keep(row) == ClassFilter(row) /\ SearchFilter(row, pattern)
         IN Rows(OrderByLabel(SelectSeq(GraphPattern(g), Keep)))

search_components(g, search_term) ==
    IF search_term.py # "str" THEN Raise("AttributeError")
    ELSE IF IsBlank(search_term.val) THEN Return(get_all_components(g))
    ELSE Return(search_query(g, search_term.val))

\* Characters an IRI reference <...> of a query cannot hold: with one of
\* them the query text does not parse.
IRIREF_Forbidden == {"<", ">", "\"", " ", "{", "}", "|", "^", "\\"}

IRIREF_ok(u) == \A i \in 1..Len(u) : u[i] \notin IRIREF_Forbidden

EmptyDict == [k \in {} |-> <<>>]

\* The loop of get_component_details over the rows of
\* SELECT ?property ?value WHERE { <uri> ?property ?value }.
RECURSIVE details_loop(_, _)
details_loop(rows, details) ==
    IF rows = <<>> THEN details
    ELSE LET row == Head(rows)
             property_name == AfterLastHash(row.p)
             value == row.o.val
         IN details_loop(Tail(rows),
                IF property_name = <<"t", "y", "p", "e">>
                THEN [details EXCEPT !.has_class = TRUE, !.class = AfterLastHash(value)]
                ELSE IF property_name = <<"l", "a", "b", "e", "l">>
                THEN [details EXCEPT !.has_name = TRUE, !.name = value]
                ELSE [details EXCEPT !.properties =
                          (property_name :> value) @@ details.properties])

\* not details.get('name'): the key is missing or its value is ''.
NoName(details) == ~details.has_name \/ details.name = <<>>

get_component_details(g, component_uri) ==
    IF ~IRIREF_ok(component_uri) THEN PyNone
    ELSE LET Test(t) == t.s = component_uri
             details == details_loop(SelectSeq(g, Test),
                            [py |-> "dict", uri |-> component_uri,
                             has_name |-> FALSE, name |-> <<>>,
                             has_class |-> FALSE, class |-> <<>>,
                             properties |-> EmptyDict])
         IN IF NoName(details) THEN PyNone ELSE details

(***************************************************************************)
(* Inputs.                                                                 *)
(***************************************************************************)
\* A document as the positions in Universe of its triples: the positions S
\* in the order of Universe (forward) or in the reverse order.
Document(S, forward) ==
    [i \in 1..Cardinality(S) |->
        CHOOSE x \in S :
            Cardinality({ y \in S : IF forward THEN y < x ELSE y > x }) = i - 1]

\* The triples at the positions q.
TriplesAt(q) == [i \in 1..Len(q) |-> Universe[q[i]]]

\* The documents of at most n triples.
Documents(n) ==
    { Document(S, forward) :
          S \in { T \in SUBSET (1..Len(Universe)) : Cardinality(T) <= n },
          forward \in BOOLEAN }

\* What is at the configured path: nothing, or a Turtle document.  Of a
\* malformed document, triples are those the parser adds to the graph before
\* it raises.  Files and graphs hold their triples as positions in Universe.
Missing == [exists |-> FALSE, triples |-> <<>>, malformed |-> FALSE]

Files ==
    { Missing } \cup
    { [exists |-> TRUE, triples |-> q, malformed |-> m] :
          q \in Documents(MaxTriples), m \in BOOLEAN }

\* Values of the search box when Search is clicked.
UITerms == { PyStr(<<>>), PyStr(<<"a">>), PyStr(<<"b">>), PyStr(<<"(">>) }

\* Arguments of search_components: those, more strings and a non-string.
SearchTerms ==
    UITerms \cup
    { PyStr(<<" ">>), PyStr(<<"A">>), PyStr(<<"a", "$">>), PyStr(<<"r">>), PyNone }

\* Arguments of get_component_details: the two subjects, an identifier no
\* file mentions and one that breaks the query text.
Uris == { lidar, amcl, comp(<<"g", "h", "o", "s", "t">>), <<"a", " ", "b">> }

(***************************************************************************)
(* State.                                                                  *)
(***************************************************************************)
VARIABLES
    rdf_file,            \* the content at DatabaseManager.rdf_file
    edits,               \* how many times the file was rewritten
    graph,               \* DatabaseManager.graph (TriplesAt(graph) are its triples)
    snapshot,            \* the triples of the last load_data that returned True
    ret,                 \* the last call through the adapter and how it ended
    pc,                  \* where main() is
    current_components,  \* build_ui's current_components
    results_container,   \* what the results column shows
    status_label,        \* the status line
    dialog               \* what the last Details click showed

vars == <<rdf_file, edits, graph, snapshot, ret, pc, current_components,
          results_container, status_label, dialog>>

adapter == <<graph, snapshot, ret>>
ui == <<current_components, results_container, status_label, dialog>>

Call(op, arg, outcome) == [op |-> op, arg |-> arg, raised |-> outcome.raised,
                           value |-> outcome.value]

\* __init__: an empty Graph; main() and build_ui have not run.
Init ==
    /\ rdf_file \in Files
    /\ edits = 0
    /\ graph = <<>>
    /\ snapshot = <<>>
    /\ ret = Call("__init__", PyNone, Return(PyNone))
    /\ pc = "start"
    /\ current_components = <<>>
    /\ results_container = [label |-> "", cards |-> <<>>]
    /\ status_label = [text |-> "", n |-> 0]
    /\ dialog = [shown |-> "none", details |-> PyNone]

(***************************************************************************)
(* The environment: the file is rewritten on disk.                         *)
(***************************************************************************)
EditFile ==
    /\ edits < MaxEdits
    /\ rdf_file.exists
    /\ \/ /\ rdf_file.triples # <<>>
          /\ rdf_file' = [rdf_file EXCEPT !.triples = Tail(@)]
       \/ rdf_file' = [rdf_file EXCEPT !.malformed = ~@]
    /\ edits' = edits + 1
    /\ UNCHANGED <<adapter, pc, ui>>

(***************************************************************************)
(* DatabaseManager.load_data.                                              *)
(***************************************************************************)
\* The graph after self.graph = Graph() and self.graph.parse(...): parse
\* adds to the new graph until it ends or raises.
parsed_graph(file) == IF file.exists THEN file.triples ELSE <<>>

\* True unless parse raised.
load_result(file) == file.exists /\ ~file.malformed

load_data ==
    /\ graph' = parsed_graph(rdf_file)
    /\ snapshot' = IF load_result(rdf_file) THEN parsed_graph(rdf_file) ELSE snapshot
    /\ ret' = Call("load_data", PyNone, Return(load_result(rdf_file)))

(***************************************************************************)
(* A caller of the adapter: any call, in any order.                        *)
(***************************************************************************)
CallLoadData ==
    /\ load_data
    /\ UNCHANGED <<rdf_file, edits, pc, ui>>

CallGetAll ==
    /\ ret' = Call("get_all_components", PyNone, Return(get_all_components(TriplesAt(graph))))
    /\ UNCHANGED <<rdf_file, edits, graph, snapshot, pc, ui>>

CallSearch ==
    \E term \in SearchTerms :
        /\ ret' = Call("search_components", term, search_components(TriplesAt(graph), term))
        /\ UNCHANGED <<rdf_file, edits, graph, snapshot, pc, ui>>

CallDetails ==
    \E uri \in Uris :
        /\ ret' = Call("get_component_details", PyStr(uri),
                       Return(get_component_details(TriplesAt(graph), uri)))
        /\ UNCHANGED <<rdf_file, edits, graph, snapshot, pc, ui>>

(***************************************************************************)
(* frontend/ui.py: build_ui and its handlers.                              *)
(***************************************************************************)
\* update_component_list returning on an empty list before it records it.
update_component_list_SkipEmpty(components) ==
    IF components = <<>>
    THEN /\ current_components' = current_components
         /\ results_container' = [label |-> "No components found", cards |-> <<>>]
    ELSE /\ current_components' = components
         /\ results_container' = [label |-> "", cards |-> components]

\* update_component_list(components)
update_component_list(components) ==
    /\ current_components' = components
    /\ results_container' =
           IF components = <<>>
           THEN [label |-> "No components found", cards |-> <<>>]
           ELSE [label |-> "", cards |-> components]

\* load_all_components(): the Show All button, and the end of build_ui.
show_all ==
    LET components == get_all_components(TriplesAt(graph))
    IN /\ ret' = Call("get_all_components", PyNone, Return(components))
       /\ update_component_list(components)
       /\ status_label' = [text |-> "Showing all", n |-> Len(components)]
       /\ UNCHANGED <<graph, snapshot, dialog>>

load_all_components ==
    /\ pc = "ui"
    /\ show_all
    /\ UNCHANGED <<rdf_file, edits, pc>>

\* perform_search(): the Search button.  An exception of search_components
\* ends the handler before the list is touched.
perform_search ==
    /\ pc = "ui"
    /\ \E search_term \in UITerms :
           LET outcome == search_components(TriplesAt(graph), search_term)
           IN /\ ret' = Call("search_components", search_term, outcome)
              /\ IF outcome.raised
                 THEN UNCHANGED <<current_components, results_container, status_label>>
                 ELSE /\ update_component_list(outcome.value)
                      /\ status_label' = [text |-> "Found", n |-> Len(outcome.value)]
    /\ UNCHANGED <<rdf_file, edits, graph, snapshot, pc, dialog>>

\* show_component_details(component): the Details button of a card.
show_component_details ==
    /\ pc = "ui"
    /\ \E i \in 1..Len(results_container.cards) :
           LET component == results_container.cards[i]
               details == get_component_details(TriplesAt(graph), component.uri)
           IN /\ ret' = Call("get_component_details", PyStr(component.uri),
                             Return(details))
              /\ dialog' = IF details = PyNone
                           THEN [shown |-> "notify_error", details |-> PyNone]
                           ELSE [shown |-> "dialog", details |-> details]
    /\ UNCHANGED <<rdf_file, edits, graph, snapshot, pc, current_components,
                   results_container, status_label>>

(***************************************************************************)
(* main.py: main().                                                        *)
(***************************************************************************)
\* if not data_file.exists(): return
main_missing ==
    /\ pc = "start"
    /\ ~rdf_file.exists
    /\ pc' = "exit"
    /\ UNCHANGED <<rdf_file, edits, adapter, ui>>

\* db_manager = DatabaseManager(...); db_manager.load_data()
main_load ==
    /\ pc = "start"
    /\ rdf_file.exists
    /\ load_data
    /\ pc' = "loaded"
    /\ UNCHANGED <<rdf_file, edits, ui>>

\* print(f"Loaded {len(db_manager.get_all_components())} components ...")
main_print ==
    /\ pc = "loaded"
    /\ ret' = Call("get_all_components", PyNone, Return(get_all_components(TriplesAt(graph))))
    /\ pc' = "printed"
    /\ UNCHANGED <<rdf_file, edits, graph, snapshot, ui>>

\* build_ui(db_manager), which ends with load_all_components(); ui.run()
\* then serves the handlers.
build_ui ==
    /\ pc = "printed"
    /\ show_all
    /\ pc' = "ui"
    /\ UNCHANGED <<rdf_file, edits>>

Next ==
    \/ EditFile
    \/ CallLoadData
    \/ CallGetAll
    \/ CallSearch
    \/ CallDetails

Spec == Init /\ [][Next]_vars

NextApp ==
    \/ EditFile
    \/ main_missing
    \/ main_load
    \/ main_print
    \/ build_ui
    \/ perform_search
    \/ load_all_components
    \/ show_component_details

AppSpec == Init /\ [][NextApp]_vars

(***************************************************************************)
(* Vocabulary of the properties.                                           *)
(***************************************************************************)
Range(q) == { q[i] : i \in 1..Len(q) }

ListOps == {"get_all_components", "search_components"}
QueryOps == ListOps \cup {"get_component_details"}


\* The graph is what the last successful load parsed (or the constructor's
\* empty graph): no failed load stands behind it.
Complete == graph = snapshot

\* The graph is a non-empty loaded triple set.
Loaded == graph # <<>> /\ Complete

\* The last call returned a list of records.
Listed(op) == ret.op = op /\ ~ret.raised

Triples == Range(TriplesAt(graph))

\* Ascending (non-strict) order of name, by code point.
SortedByName(records) ==
    \A i, j \in 1..Len(records) : i < j => ~StrLess(records[j].name, records[i].name)

\* Every label of the graph is a plain literal.
LabelsAreLiterals == \A t \in Triples : t.p = RDFS_label => t.o.kind = "lit"

HasAllowedType(uri) ==
    \E t \in Triples : t.s = uri /\ t.p = RDF_type /\ t.o \in AllowedClasses

\* t is made of spaces only (or is empty).
OnlyWhitespace(t) == \A i \in 1..Len(t) : t[i] = " "

SameUpToCase(a, b) ==
    /\ Len(a) = Len(b)
    /\ \A i \in 1..Len(a) : Lower(a[i]) = Lower(b[i])

RegexMeta == {".", "^", "$", "*", "+", "?", "{", "}", "[", "]", "\\", "|", "(", ")"}

NoRegexMeta(t) == \A i \in 1..Len(t) : t[i] \notin RegexMeta

\* The record's name is the text of a plain literal label of its subject.
HasLiteralLabel(c) ==
    \E t \in Triples : t.s = c.uri /\ t.p = RDFS_label /\ t.o = Literal(c.name)

\* The record's description is the text of a description triple of its subject.
HasDescription(c) ==
    \E t \in Triples : t.s = c.uri /\ t.p = comp_description /\ t.o.val = c.description

(***************************************************************************)
(* C1                                                                      *)
(***************************************************************************)
\* C1, as stated: on a non-empty graph get_all_components returns its records
\* in ascending order of name, every record's class is one of the five
\* allow-listed categories, and every listed subject has an allow-listed type.
C1_SortedByName ==
    Listed("get_all_components") /\ Loaded =>
        /\ SortedByName(ret.value)
        /\ \A i \in 1..Len(ret.value) :
               /\ ret.value[i].class \in AllowedClassNames
               /\ HasAllowedType(ret.value[i].uri)

\* C1, amended: the records are in ascending order of name whenever every
\* label of the graph is a plain literal (ORDER BY ?label puts IRI labels
\* before literal labels); the class and allow-list parts hold as stated.
C1_SortedByLiteralLabel ==
    Listed("get_all_components") /\ Loaded =>
        /\ LabelsAreLiterals => SortedByName(ret.value)
        /\ \A i \in 1..Len(ret.value) :
               /\ ret.value[i].class \in AllowedClassNames
               /\ HasAllowedType(ret.value[i].uri)

\* Two subjects listed under different names, while the graph also holds a
\* type outside the allow-list or a second label.
C1_Witness ==
    /\ Listed("get_all_components")
    /\ Loaded
    /\ LabelsAreLiterals
    /\ Len(ret.value) >= 2
    /\ ret.value[1].name # ret.value[2].name
    /\ ret.value[1].uri # ret.value[2].uri

(***************************************************************************)
(* C2                                                                      *)
(***************************************************************************)
\* C2: for a term that is empty or only whitespace, search_components
\* returns the same sequence of records as get_all_components on that graph.
C2_BlankSearchIsListAll ==
    ret.op = "search_components" /\ ret.arg.py = "str" /\ OnlyWhitespace(ret.arg.val) =>
        /\ ~ret.raised
        /\ ret.value = get_all_components(TriplesAt(graph))

\* A whitespace-only search that returned a non-empty list.
C2_Witness ==
    /\ Listed("search_components")
    /\ ret.arg = PyStr(<<" ">>)
    /\ ret.value # <<>>

(***************************************************************************)
(* C3                                                                      *)
(***************************************************************************)
\* C3, as stated: search_components(t) contains every record of
\* get_all_components whose name equals t up to letter case, whatever
\* characters the name holds.
C3_NameFindsComponent ==
    Listed("search_components") /\ Complete =>
        \A c \in Range(get_all_components(TriplesAt(graph))) :
            SameUpToCase(ret.arg.val, c.name) => c \in Range(ret.value)

\* C3, amended: this holds for the records whose label is a plain literal
\* free of regular-expression metacharacters.
C3_PlainNameFindsComponent ==
    Listed("search_components") =>
        \A c \in Range(get_all_components(TriplesAt(graph))) :
            /\ SameUpToCase(ret.arg.val, c.name)
            /\ NoRegexMeta(c.name)
            /\ HasLiteralLabel(c)
            => c \in Range(ret.value)

\* A search for "A" that returned a record named "a".
C3_Witness ==
    /\ Listed("search_components")
    /\ ret.arg = PyStr(<<"A">>)
    /\ \E c \in Range(ret.value) : c.name = <<"a">>

(***************************************************************************)
(* C4                                                                      *)
(***************************************************************************)
\* C4: for a non-blank term (a valid pattern), search_components returns
\* exactly the records of get_all_components whose name, class identifier or
\* description matches the term case-insensitively; a match on one field
\* alone is enough.
C4_SearchMatchesAnyField ==
    /\ Listed("search_components")
    /\ Complete
    /\ ~OnlyWhitespace(ret.arg.val)
    /\ re_compiles(ret.arg.val)
    => LET Matches(c) ==
               \/ re_search(ret.arg.val, c.name)
               \/ re_search(ret.arg.val, comp(c.class))
               \/ HasDescription(c) /\ re_search(ret.arg.val, c.description)
       IN ret.value = SelectSeq(get_all_components(TriplesAt(graph)), Matches)

(***************************************************************************)
(* C5                                                                      *)
(***************************************************************************)
\* C5: for every record r of get_all_components, get_component_details(r.uri)
\* returns a detail whose name is r.name.
C5_DetailsNameMatchesList ==
    ret.op = "get_component_details" /\ Complete =>
        \A r \in Range(get_all_components(TriplesAt(graph))) :
            r.uri = ret.arg.val =>
                /\ ret.value # PyNone
                /\ ret.value.name = r.name

(***************************************************************************)
(* C6                                                                      *)
(***************************************************************************)
\* C6: get_component_details(uri) returns None exactly when the subject has
\* no label triple, and a detail holds every triple that is neither a type
\* nor a label in properties, under the predicate's local name.
C6_NotFoundIffNoLabel ==
    ret.op = "get_component_details" /\ Complete =>
        LET uri == ret.arg.val
            labelled == \E t \in Triples : t.s = uri /\ t.p = RDFS_label
        IN /\ (ret.value = PyNone) <=> ~labelled
           /\ ret.value # PyNone =>
                  \A t \in Triples :
                      t.s = uri /\ t.p \notin {RDF_type, RDFS_label} =>
                          /\ AfterLastHash(t.p) \in DOMAIN ret.value.properties
                          /\ ret.value.properties[AfterLastHash(t.p)] = t.o.val

(***************************************************************************)
(* C7                                                                      *)
(***************************************************************************)
\* C7: no call of the adapter raises to its caller, whatever the argument.
C7_NeverRaises == ~ret.raised

(***************************************************************************)
(* C8                                                                      *)
(***************************************************************************)
\* C8: every query runs against a complete snapshot, the graph of the last
\* load that succeeded (or the constructor's empty graph), also after a
\* load_data that returned False.
C8_QueriesSeeCompleteSnapshot == ret.op \in QueryOps => graph = snapshot

(***************************************************************************)
(* C9                                                                      *)
(***************************************************************************)
\* C9: no two records of one result of get_all_components or
\* search_components share a uri.
C9_UriIsUniqueKey ==
    ret.op \in ListOps /\ ~ret.raised /\ Complete =>
        \A i, j \in 1..Len(ret.value) :
            i # j => ret.value[i].uri # ret.value[j].uri

(***************************************************************************)
(* C10                                                                     *)
(***************************************************************************)
\* C10: once the interface is up, no step changes the graph or calls
\* load_data, so get_all_components, a function of the graph alone, keeps
\* returning the same sequence; and the displayed list is the result of the
\* most recent get_all_components or search_components call (a step that
\* makes neither leaves it alone).
C10_ReadOnlyAfterStartup ==
    [][ /\ pc = "ui" =>
              /\ graph' = graph
              /\ ret'.op # "load_data"
        /\ pc' = "ui" /\ ret'.op \in ListOps =>
              /\ current_components' = ret'.value
              /\ results_container'.cards = ret'.value
        /\ pc = "ui" /\ ret'.op \notin ListOps =>
              /\ current_components' = current_components
              /\ results_container' = results_container
      ]_vars

\* The interface shows a non-empty search result while the file on disk no
\* longer holds what was loaded.
C10_Witness ==
    /\ pc = "ui"
    /\ edits > 0
    /\ rdf_file.triples # graph
    /\ ret.op = "search_components"
    /\ current_components # <<>>
====
